---- MODULE Spec2Model ----
(***************************************************************************)
(* Draft / publish state machine of the species repository                 *)
(* (backend/src/modules/species/species.repository.ts) and the public read *)
(* client that lists published records.                                    *)
(*                                                                         *)
(* The species table is a set of rows.  A row is a function from column    *)
(* name to a JavaScript value; values are tagged records so that null,     *)
(* undefined, strings, booleans, numbers, dates, arrays and objects stay   *)
(* distinct, as they are in the program.                                   *)
(***************************************************************************)
EXTENDS Integers, Sequences, FiniteSets, TLC

VARIABLES
    store,   \* the species table: a set of rows
    nextId,  \* the serial that numbers inserted rows
    now,     \* the wall clock read by new Date()
    call,    \* per request: where the handler stands between its awaits
    calls,   \* number of repository calls started so far
    hist,    \* history: the completed calls in order of completion
    acked,   \* history: per id, the draft keys createDraft has acknowledged
             \* since the draft was last cleared, with value and caller
    listing, \* the last answer of a listing query, or of UsersService.update
    users,   \* the users table: a set of rows
    clerk    \* the identity provider: publicMetadata per clerkId, and the
             \* number of updateUser requests it has carried out

vars == <<store, nextId, now, call, calls, hist, acked, listing, users, clerk>>

---------------------------------------------------------------------------
(* Bounds of the model *)

\* the clock shows 0..MaxTime
MaxTime == 1
\* calls started in a run of one editor working alone
MaxCalls == 3
\* calls started in a run of concurrent editors
MaxConcCalls == 2
\* rows of a table snapshot that listings are asked of
MaxRows == 2
\* pages asked of a listing
MaxPage == 2

Procs == {"e1", "e2"}
\* record 1 exists from the start, record 2 once it is created
Ids == {1, 2}

---------------------------------------------------------------------------
(* JavaScript values *)

Null == [t |-> "null"]
Undef == [t |-> "undefined"]
Str(s) == [t |-> "str", s |-> s]
Num(n) == [t |-> "num", n |-> n]
Bool(b) == [t |-> "bool", b |-> b]
Date(d) == [t |-> "date", d |-> d]
Arr(a) == [t |-> "arr", a |-> a]
Obj(m) == [t |-> "obj", m |-> m]

EmptyMap == [k \in {} |-> Null]

\* the condition of `if (v)`, `v || w`
Truthy(v) ==
    CASE v.t = "null" -> FALSE
      [] v.t = "undefined" -> FALSE
      [] v.t = "bool" -> v.b
      [] v.t = "str" -> v.s # ""
      [] v.t = "num" -> v.n # 0
      [] OTHER -> TRUE

\* { ...a, ...b }: own keys of b, undefined values included, override a
Spread(a, b) ==
    [k \in DOMAIN a \cup DOMAIN b |-> IF k \in DOMAIN b THEN b[k] ELSE a[k]]

\* What a json column, or a JSON response body, gives back for a value
\* written to it: JSON.stringify drops object members that are undefined,
\* writes undefined array elements as null and dates as ISO strings; null is
\* kept.
RECURSIVE ToJson(_)
ToJson(v) ==
    CASE v.t = "obj" ->
           Obj([k \in {j \in DOMAIN v.m : v.m[j] # Undef} |-> ToJson(v.m[k])])
      [] v.t = "arr" ->
           Arr([i \in DOMAIN v.a |->
                   IF v.a[i] = Undef THEN Null ELSE ToJson(v.a[i])])
      [] v.t = "date" -> [t |-> "isostring", d |-> v.d]
      [] OTHER -> v

---------------------------------------------------------------------------
(* The species table *)

Columns ==
    {"id", "slug", "status", "mainGroup", "commonName", "description",
     "richContent", "mainImage", "galleryImages",
     "publishedAt", "createdAt", "updatedAt",
     "draftData", "hasDraft", "draftCreatedAt",
     "lockedBy", "lockedAt", "lockExpiresAt"}

\* the columns of the edit lock
LockColumns == {"lockedBy", "lockedAt", "lockExpiresAt"}

\* the columns holding what the public sees of a record
PublishedFields ==
    {"commonName", "description", "richContent", "mainGroup", "mainImage",
     "galleryImages"}

NoRow == Undef

SlugOf(i) == IF i = 1 THEN "puma" ELSE IF i = 2 THEN "condor" ELSE "huemul"

\* db.insert(species).values(data): the columns data leaves out take their
\* defaults
InsertedRow(i, data, t) ==
    [c \in Columns |->
        IF c \in DOMAIN data /\ data[c] # Undef THEN data[c]
        ELSE CASE c = "id" -> Num(i)
               [] c = "status" -> Str("draft")
               [] c = "hasDraft" -> Bool(FALSE)
               [] c = "createdAt" -> Date(t)
               [] c = "updatedAt" -> Date(t)
               [] OTHER -> Null]

\* .where(eq(species.id, id))
WhereId(st, id) == {r \in st : r["id"] = Num(id)}

\* const [current] = await db.select()...: the first row, or undefined
First(rows) == IF rows = {} THEN NoRow ELSE CHOOSE r \in rows : TRUE

\* .set(values) on one row: keys that are no column and undefined values are
\* left out of the statement
ApplySet(row, set) ==
    [c \in DOMAIN row |->
        IF c \in DOMAIN set /\ set[c] # Undef THEN set[c] ELSE row[c]]

\* db.update(species).set(values).where(eq(species.id, id))
UpdateWhereId(st, id, set) ==
    {IF r["id"] = Num(id) THEN ApplySet(r, set) ELSE r : r \in st}

findById_publishedFirst(st, id, includeDraft) ==
    LET result == First(WhereId(st, id))
    IN IF /\ includeDraft
          /\ result # NoRow
          /\ Truthy(result["hasDraft"])
          /\ Truthy(result["draftData"])
       THEN Spread(Spread(result["draftData"].m, result), "isDraft" :> Bool(TRUE))
       ELSE result

\* findById(id, includeDraft), lines 89-114
findById(st, id, includeDraft) ==
    LET result == First(WhereId(st, id))
    IN IF /\ includeDraft
          /\ result # NoRow
          /\ Truthy(result["hasDraft"])
          /\ Truthy(result["draftData"])
       THEN Spread(Spread(result, result["draftData"].m), "isDraft" :> Bool(TRUE))
       ELSE result

---------------------------------------------------------------------------
(* Inputs *)

RichA == Obj("blocks" :> Arr(<<Obj("type" :> Str("p")), Obj("type" :> Str("h1"))>>))
RichB == Obj("blocks" :> Arr(<<Obj("type" :> Str("p"))>>))

\* the patches an editor sends to createDraft
PatchInputs ==
    { "commonName" :> Str("Puma concolor"),
      "description" :> Str("felino"),
      "description" :> Null,
      "description" :> Undef,
      "richContent" :> RichA,
      "richContent" :> Null,
      ("status" :> Str("archived")) @@ ("hasDraft" :> Bool(TRUE)),
      EmptyMap }

\* patches that name the primary key: draftData is typed any
IdPatchInputs ==
    { "id" :> Num(2),
      ("id" :> Num(2)) @@ ("commonName" :> Str("Puma concolor")),
      "commonName" :> Str("Puma concolor") }

\* the data an editor sends to create
CreateInputs ==
    { ("slug" :> Str(SlugOf(2))) @@ ("commonName" :> Str("Condor")),
      ("slug" :> Str(SlugOf(2))) @@ ("commonName" :> Str("Condor"))
          @@ ("status" :> Str("published")) }

\* the data an editor sends to update
UpdateInputs == { "status" :> Str("archived") }

---------------------------------------------------------------------------
(* Initial state: record 1, "Puma", clean and published, clean and never   *)
(* published, or published with an edit pending.                           *)

Puma(status, draft) ==
    InsertedRow(1,
        ("slug" :> Str(SlugOf(1))) @@ ("commonName" :> Str("Puma"))
          @@ ("description" :> Str("gato")) @@ ("richContent" :> RichB)
          @@ ("mainGroup" :> Str("mammal"))
          @@ ("mainImage" :> Obj("url" :> Str("puma.jpg")))
          @@ ("status" :> Str(status))
          @@ ("publishedAt" :> IF status = "published" THEN Date(0) ELSE Null)
          @@ ("draftData" :> draft)
          @@ ("hasDraft" :> Bool(draft # Null))
          @@ ("draftCreatedAt" :> IF draft # Null THEN Date(0) ELSE Null),
        0)

InitRows ==
    { Puma("published", Null),
      Puma("draft", Null),
      Puma("published", Obj("description" :> Str("leon"))) }

\* the id of a user who is none of the callers
OtherUser == Num(7)

\* row r with the edit lock held by OtherUser until after the last reading
\* of the clock
Locked(r) ==
    [r EXCEPT !["lockedBy"] = OtherUser, !["lockedAt"] = Date(0),
              !["lockExpiresAt"] = Date(MaxTime + 1)]

\* users.ts lines 10-36: the columns of a user that the service reads or
\* writes
UserRow(id, role) ==
    [id |-> id, clerkId |-> IF id = 1 THEN "clerk_1" ELSE "clerk_2",
     role |-> role, firstName |-> "Ana"]

ClerkIds == {"clerk_1", "clerk_2"}

\* an admin and a user whose role is the column's default (users.ts line 33)
InitUserRows == {UserRow(1, "admin"), UserRow(2, "user")}

\* the provider knows both users by the roles they have
InitClerk ==
    [meta |-> [c \in ClerkIds |->
                 "role" :> (IF c = "clerk_1" THEN "admin" ELSE "user")],
     pushes |-> 0]

Idle == [at |-> "idle", id |-> 0, patch |-> EmptyMap, current |-> NoRow,
         result |-> NoRow]

\* no species: only the users table and the provider matter
InitUsers ==
    /\ store = {}
    /\ nextId = 1
    /\ now = 0
    /\ call = [p \in Procs |-> Idle]
    /\ calls = 0
    /\ hist = << >>
    /\ acked = [i \in Ids |-> EmptyMap]
    /\ listing = NoRow
    /\ users = InitUserRows
    /\ clerk = InitClerk

Init ==
    /\ store \in {{r} : r \in InitRows}
    /\ nextId = 2
    /\ now = 0
    /\ call = [p \in Procs |-> Idle]
    /\ calls = 0
    /\ hist = << >>
    /\ acked = [i \in Ids |-> EmptyMap]
    /\ listing = NoRow
    /\ users = InitUserRows
    /\ clerk = InitClerk

---------------------------------------------------------------------------
(* History bookkeeping *)

Entry(op, id, patch, res, pre, ret) ==
    [op |-> op, id |-> id, patch |-> patch, res |-> res, pre |-> pre,
     ret |-> ret]

\* a completed call is appended when the history is kept (h)
Record(h, e) == hist' = IF h THEN Append(hist, e) ELSE hist

Begin(p, max) ==
    /\ call[p].at = "idle"
    /\ calls < max
    /\ calls' = calls + 1

---------------------------------------------------------------------------
(* createDraft(id, draftData) *)

\* a merge that starts from nothing: the patch replaces the pending draft
updatedDraft_replaces(current, patch) == patch

\* lines 267-272: merge with the existing draft, not with the current data
updatedDraft(current, patch) ==
    LET existingDraft ==
            IF Truthy(current["draftData"]) THEN current["draftData"].m
            ELSE EmptyMap
    IN Spread(existingDraft, patch)

\* a createDraft that also writes the patch to the live columns
createDraftSet_writesLive(current, patch, t) ==
    Spread(patch,
        ("draftData" :> ToJson(Obj(Spread(
              IF Truthy(current["draftData"]) THEN current["draftData"].m
              ELSE EmptyMap, patch))))
          @@ ("hasDraft" :> Bool(TRUE))
          @@ ("draftCreatedAt" :>
                IF Truthy(current["draftCreatedAt"]) THEN current["draftCreatedAt"]
                ELSE Date(t))
          @@ ("updatedAt" :> Date(t)))

\* a createDraft that stamps draftCreatedAt on every patch
createDraftSet_restamps(current, patch, t) ==
    ("draftData" :> ToJson(Obj(updatedDraft(current, patch))))
      @@ ("hasDraft" :> Bool(TRUE))
      @@ ("draftCreatedAt" :> Date(t))
      @@ ("updatedAt" :> Date(t))

\* lines 290-295: the values createDraft writes
createDraftSet(current, patch, t) ==
    ("draftData" :> ToJson(Obj(updatedDraft(current, patch))))
      @@ ("hasDraft" :> Bool(TRUE))
      @@ ("draftCreatedAt" :>
            IF Truthy(current["draftCreatedAt"]) THEN current["draftCreatedAt"]
            ELSE Date(t))
      @@ ("updatedAt" :> Date(t))

\* a createDraft that answers a missing record as if it had been written
createDraftSelect_silent(p, h, max, id, patch) ==
    /\ Begin(p, max)
    /\ LET current == First(WhereId(store, id))
       IN IF current = NoRow
          THEN /\ Record(h, Entry("createDraft", id, patch, "ok", NoRow, NoRow))
               /\ call' = call
          ELSE /\ call' = [call EXCEPT ![p] =
                     [at |-> "createDraftUpdate", id |-> id, patch |-> patch,
                      current |-> current, result |-> NoRow]]
               /\ hist' = hist
    /\ UNCHANGED <<users, clerk, store, nextId, now, acked, listing>>

\* lines 260-265: the select, and the throw when there is no such record
createDraftSelect(p, h, max, id, patch) ==
    /\ Begin(p, max)
    /\ LET current == First(WhereId(store, id))
       IN IF current = NoRow
          THEN /\ Record(h, Entry("createDraft", id, patch, "NotFound", NoRow, NoRow))
               /\ call' = call
          ELSE /\ call' = [call EXCEPT ![p] =
                     [at |-> "createDraftUpdate", id |-> id, patch |-> patch,
                      current |-> current, result |-> NoRow]]
               /\ hist' = hist
    /\ UNCHANGED <<users, clerk, store, nextId, now, acked, listing>>

\* lines 288-299: the update, from the row read before the await
createDraftUpdate(p, h) ==
    /\ call[p].at = "createDraftUpdate"
    /\ LET c == call[p]
           set == createDraftSet(c.current, c.patch, now)
           hit == WhereId(store, c.id) # {}
           st == UpdateWhereId(store, c.id, set)
       IN /\ store' = st
          /\ acked' = IF hit
                      THEN [acked EXCEPT ![c.id] =
                              LET json == ToJson(Obj(c.patch)).m
                                  kept == (DOMAIN @ \ DOMAIN c.patch) \cup DOMAIN json
                              IN [k \in kept |->
                                     IF k \in DOMAIN json
                                     THEN [v |-> json[k], by |-> p]
                                     ELSE @[k]]]
                      ELSE acked
          /\ Record(h, Entry("createDraft", c.id, c.patch, "ok", c.current,
                             First(WhereId(st, c.id))))
    /\ call' = [call EXCEPT ![p] = Idle]
    /\ UNCHANGED <<users, clerk, nextId, now, calls, listing>>

---------------------------------------------------------------------------
(* discardDraft(id): one update statement *)

\* a discard that forgets the flag
discardDraftSet_keepsFlag(t) ==
    ("draftData" :> Null) @@ ("draftCreatedAt" :> Null) @@ ("updatedAt" :> Date(t))

\* a discard that sends the record back to draft status
discardDraftSet_unpublishes(t) ==
    ("draftData" :> Null) @@ ("hasDraft" :> Bool(FALSE))
      @@ ("draftCreatedAt" :> Null) @@ ("updatedAt" :> Date(t))
      @@ ("status" :> Str("draft"))

\* lines 306-311: the values discardDraft writes
discardDraftSet(t) ==
    ("draftData" :> Null) @@ ("hasDraft" :> Bool(FALSE))
      @@ ("draftCreatedAt" :> Null) @@ ("updatedAt" :> Date(t))

discardDraft(p, h, max, id) ==
    /\ Begin(p, max)
    /\ LET st == UpdateWhereId(store, id, discardDraftSet(now))
       IN /\ store' = st
          /\ Record(h, Entry("discardDraft", id, EmptyMap, "ok",
                             First(WhereId(store, id)), First(WhereId(st, id))))
    /\ acked' = IF id \in Ids THEN [acked EXCEPT ![id] = EmptyMap] ELSE acked
    /\ UNCHANGED <<users, clerk, nextId, now, call, listing>>

---------------------------------------------------------------------------
(* publish(id) *)

\* rows an update statement gives back with .returning()
Returning(st, id, set) == {ApplySet(r, set) : r \in WhereId(st, id)}

\* the explicit fields of a publish, after the draft's own
publishClear(rich, t) ==
    ("richContent" :> rich)
      @@ ("draftData" :> Null)
      @@ ("hasDraft" :> Bool(FALSE))
      @@ ("draftCreatedAt" :> Null)
      @@ ("status" :> Str("published"))
      @@ ("publishedAt" :> Date(t))
      @@ ("updatedAt" :> Date(t))

\* a publish that takes the draft's richContent with ||: null falls back to
\* the published value
publishUpdateData_coalesces(current, t) ==
    LET draft == current["draftData"].m
        field == IF "richContent" \in DOMAIN draft THEN draft["richContent"] ELSE Undef
    IN Spread([k \in DOMAIN draft \ {"richContent"} |-> draft[k]],
              publishClear(IF Truthy(field) THEN field ELSE current["richContent"], t))

\* a publish that spreads the draft after the explicit fields
publishUpdateData_draftLast(current, t) ==
    LET draft == current["draftData"].m
        field == IF "richContent" \in DOMAIN draft THEN draft["richContent"] ELSE Undef
    IN Spread(publishClear(IF field # Undef THEN field ELSE current["richContent"], t),
              [k \in DOMAIN draft \ {"richContent"} |-> draft[k]])

\* lines 172-203: the values publish writes when the record has draft data
publishUpdateData(current, t) ==
    LET draft == current["draftData"].m
        draftRichContentField ==
            IF "richContent" \in DOMAIN draft THEN draft["richContent"] ELSE Undef
        otherDraftFields == [k \in DOMAIN draft \ {"richContent"} |-> draft[k]]
        richContentToSave ==
            IF draftRichContentField # Undef THEN draftRichContentField
            ELSE current["richContent"]
        updateData == Spread(otherDraftFields, publishClear(richContentToSave, t))
    IN \* lines 198-203: remove undefined fields
       [k \in {j \in DOMAIN updateData : updateData[j] # Undef} |-> updateData[k]]

\* lines 242-246: the values publish writes for a record never published
publishPlainSet(t) ==
    ("status" :> Str("published")) @@ ("publishedAt" :> Date(t))
      @@ ("updatedAt" :> Date(t))

\* a publish that turns away from a record another user has locked
publishBranch_checksLock(current) ==
    IF Truthy(current["lockedBy"]) THEN "NothingToPublish"
    ELSE IF Truthy(current["draftData"]) THEN "publishUpdateDraft"
    ELSE IF current["status"] = Str("draft") THEN "publishUpdatePlain"
    ELSE "NothingToPublish"

\* a publish that republishes whatever is not draft-backed
publishBranch_republishes(current) ==
    IF Truthy(current["draftData"]) THEN "publishUpdateDraft"
    ELSE "publishUpdatePlain"

\* lines 163, 238: which branch publish takes on the row it read
publishBranch(current) ==
    IF Truthy(current["draftData"]) THEN "publishUpdateDraft"
    ELSE IF current["status"] = Str("draft") THEN "publishUpdatePlain"
    ELSE "NothingToPublish"

\* lines 149-160, 254-256: the select and the two throws that follow it
publishSelect(p, h, max, id) ==
    /\ Begin(p, max)
    /\ LET current == First(WhereId(store, id))
       IN IF current = NoRow
          THEN /\ Record(h, Entry("publish", id, EmptyMap, "NotFound", NoRow, NoRow))
               /\ call' = call
          ELSE IF publishBranch(current) = "NothingToPublish"
          THEN /\ Record(h, Entry("publish", id, EmptyMap, "NothingToPublish",
                                  current, NoRow))
               /\ call' = call
          ELSE /\ call' = [call EXCEPT ![p] =
                     [at |-> publishBranch(current), id |-> id,
                      patch |-> EmptyMap, current |-> current, result |-> NoRow]]
               /\ hist' = hist
    /\ UNCHANGED <<users, clerk, store, nextId, now, acked, listing>>

\* lines 212-222: the single update of a draft-backed publish; reading
\* result.status of no row is a TypeError
publishUpdateDraft(p, h) ==
    /\ call[p].at = "publishUpdateDraft"
    /\ LET c == call[p]
           set == publishUpdateData(c.current, now)
           result == First(Returning(store, c.id, set))
       IN /\ store' = UpdateWhereId(store, c.id, set)
          /\ IF result = NoRow
             THEN /\ Record(h, Entry("publish", c.id, EmptyMap, "TypeError",
                                     c.current, NoRow))
                  /\ call' = [call EXCEPT ![p] = Idle]
                  /\ acked' = acked
             ELSE /\ call' = [call EXCEPT ![p] =
                        [c EXCEPT !.at = "publishVerify", !.result = result]]
                  /\ hist' = hist
                  /\ acked' = [acked EXCEPT ![c.id] = EmptyMap]
    /\ UNCHANGED <<users, clerk, nextId, now, calls, listing>>

\* lines 224-235: the verification select, then return result
publishVerify(p, h) ==
    /\ call[p].at = "publishVerify"
    /\ LET c == call[p]
           verification == First(WhereId(store, c.id))
       IN Record(h, Entry("publish", c.id, EmptyMap,
                          IF verification = NoRow THEN "TypeError" ELSE "ok",
                          c.current,
                          IF verification = NoRow THEN NoRow ELSE c.result))
    /\ call' = [call EXCEPT ![p] = Idle]
    /\ UNCHANGED <<users, clerk, store, nextId, now, calls, acked, listing>>

\* lines 238-252: publish of a record in draft status with no draft data
publishUpdatePlain(p, h) ==
    /\ call[p].at = "publishUpdatePlain"
    /\ LET c == call[p]
           set == publishPlainSet(now)
           result == First(Returning(store, c.id, set))
       IN /\ store' = UpdateWhereId(store, c.id, set)
          /\ Record(h, Entry("publish", c.id, EmptyMap,
                             IF result = NoRow THEN "TypeError" ELSE "ok",
                             c.current, result))
    /\ call' = [call EXCEPT ![p] = Idle]
    /\ UNCHANGED <<users, clerk, nextId, now, calls, acked, listing>>

---------------------------------------------------------------------------
(* create, update, delete *)

create(p, h, max, data) ==
    /\ Begin(p, max)
    /\ nextId \in Ids
    /\ LET row == InsertedRow(nextId, data, now)
       IN /\ store' = store \cup {row}
          /\ Record(h, Entry("create", nextId, data, "ok", NoRow, row))
    /\ nextId' = nextId + 1
    /\ UNCHANGED <<users, clerk, now, call, acked, listing>>

update(p, h, max, id, data) ==
    /\ Begin(p, max)
    /\ LET set == Spread(data, "updatedAt" :> Date(now))
       IN /\ store' = UpdateWhereId(store, id, set)
          /\ Record(h, Entry("update", id, data, "ok",
                             First(WhereId(store, id)),
                             First(Returning(store, id, set))))
    /\ UNCHANGED <<users, clerk, nextId, now, call, acked, listing>>

delete(p, h, max, id) ==
    /\ Begin(p, max)
    /\ store' = store \ WhereId(store, id)
    /\ Record(h, Entry("delete", id, EmptyMap, "ok",
                       First(WhereId(store, id)), NoRow))
    /\ acked' = [acked EXCEPT ![id] = EmptyMap]
    /\ UNCHANGED <<users, clerk, nextId, now, call, listing>>

\* time passes between two readings of new Date()
Tick ==
    /\ now < MaxTime
    /\ now' = now + 1
    /\ UNCHANGED <<users, clerk, store, nextId, call, calls, hist, acked, listing>>

---------------------------------------------------------------------------
(* The edit lock coordinator.  Its code is not part of the sources; it is  *)
(* modelled from section 4.3 of the design: one step per call.             *)

\* the configured time a lock lasts
LockDuration == 1

\* the users who take locks; user 1 is an administrator
Users == {1, 2}
Admins == {1}

\* a coordinator for which every lock has run out
LockValid_never(r, t) == FALSE

\* a lock is valid while lockExpiresAt > now
LockValid(r, t) ==
    /\ r["lockedBy"] # Null
    /\ r["lockExpiresAt"].d > t

\* what acquireLock writes
acquireLockSet(u, t) ==
    ("lockedBy" :> Num(u)) @@ ("lockedAt" :> Date(t))
      @@ ("lockExpiresAt" :> Date(t + LockDuration))

\* acquireLock(recordId, userId): LockConflict if a different user holds a
\* valid lock, else the lock is the requester's, with fresh timestamps
acquireLock(u, max, id) ==
    /\ calls < max
    /\ calls' = calls + 1
    /\ LET current == First(WhereId(store, id))
           who == "userId" :> Num(u)
       IN IF current = NoRow
          THEN /\ store' = store
               /\ Record(TRUE, Entry("acquireLock", id, who, "NotFound", NoRow, NoRow))
          ELSE IF LockValid(current, now) /\ current["lockedBy"] # Num(u)
          THEN /\ store' = store
               /\ Record(TRUE, Entry("acquireLock", id, who, "LockConflict",
                                     current, current))
          ELSE /\ store' = UpdateWhereId(store, id, acquireLockSet(u, now))
               /\ Record(TRUE, Entry("acquireLock", id, who, "ok", current,
                                     ApplySet(current, acquireLockSet(u, now))))
    /\ UNCHANGED <<users, clerk, nextId, now, call, acked, listing>>

\* what releaseLock writes
releaseLockSet ==
    ("lockedBy" :> Null) @@ ("lockedAt" :> Null) @@ ("lockExpiresAt" :> Null)

\* releaseLock(recordId, userId): the holder or an administrator takes the
\* lock off; anyone else is refused with Forbidden
releaseLock(u, max, id) ==
    /\ calls < max
    /\ calls' = calls + 1
    /\ LET current == First(WhereId(store, id))
           who == "userId" :> Num(u)
       IN IF current = NoRow
          THEN /\ store' = store
               /\ Record(TRUE, Entry("releaseLock", id, who, "NotFound", NoRow, NoRow))
          ELSE IF current["lockedBy"] = Null
          THEN /\ store' = store
               /\ Record(TRUE, Entry("releaseLock", id, who, "ok", current, current))
          ELSE IF current["lockedBy"] # Num(u) /\ u \notin Admins
          THEN /\ store' = store
               /\ Record(TRUE, Entry("releaseLock", id, who, "Forbidden",
                                     current, current))
          ELSE /\ store' = UpdateWhereId(store, id, releaseLockSet)
               /\ Record(TRUE, Entry("releaseLock", id, who, "ok", current,
                                     ApplySet(current, releaseLockSet)))
    /\ UNCHANGED <<users, clerk, nextId, now, call, acked, listing>>

---------------------------------------------------------------------------
(* findAll(params), lines 10-87 *)

DefaultPage == 1
DefaultLimit == 20

Statuses == {"draft", "published", "archived"}

validGroups ==
    {"mammal", "bird", "reptile", "amphibian", "fish", "insect", "arachnid",
     "crustacean", "mollusk", "plant", "fungus", "algae", "other"}

\* const { page = 1, limit = 20, ... } = params
OrDefault(v, d) == IF v = Undef THEN d ELSE v.n

\* a listing that takes any status string as a filter value
statusCondition_unchecked(r, status) ==
    Truthy(status) => r["status"] = status

\* a listing that never filters on status
statusCondition_none(r, status) == TRUE

\* lines 24-28: the status condition, pushed only for a known status
statusCondition(r, status) ==
    (Truthy(status) /\ status.s \in Statuses) => r["status"] = status

\* lines 30-49: the mainGroup condition, pushed only for a valid group
groupCondition(r, mainGroup) ==
    (Truthy(mainGroup) /\ mainGroup.s \in validGroups) => r["mainGroup"] = mainGroup

\* lines 60, 69: the rows the where clause selects; the queries drawn here
\* carry no search term, so the search condition (lines 51-58) is not pushed
whereClause(st, params) ==
    {r \in st : statusCondition(r, params.status) /\ groupCondition(r, params.mainGroup)}

\* line 70: the orders .orderBy(desc(species.createdAt)) may give the rows;
\* rows created at the same time come in any order
RECURSIVE OrderByCreatedAtDesc(_)
OrderByCreatedAtDesc(rows) ==
    IF rows = {} THEN {<< >>}
    ELSE LET newest == {r \in rows :
                          \A q \in rows : r["createdAt"].d >= q["createdAt"].d}
         IN UNION {{<<r>> \o rest : rest \in OrderByCreatedAtDesc(rows \ {r})} :
                      r \in newest}

CeilDiv(a, b) == (a + b - 1) \div b

\* lines 71-86: the page of one ordering, and the pagination computed from
\* the window count of its first row
PageOf(o, page, limit) ==
    LET offset == (page - 1) * limit
        last == IF offset + limit < Len(o) THEN offset + limit ELSE Len(o)
        data == [i \in 1..(IF last > offset THEN last - offset ELSE 0) |-> o[offset + i]]
        count == IF Len(data) > 0 THEN Len(o) ELSE 0
    IN [data |-> data,
        pagination |-> [page |-> page, limit |-> limit, total |-> count,
                        totalPages |-> CeilDiv(count, limit)]]

\* the answers findAll may give
findAll(st, params) ==
    {PageOf(o, OrDefault(params.page, DefaultPage), OrDefault(params.limit, DefaultLimit)) :
        o \in OrderByCreatedAtDesc(whereClause(st, params))}

\* findBySlug(slug), lines 116-123
findBySlug(st, slug) == First({r \in st : r["slug"] = Str(slug)})

---------------------------------------------------------------------------
(* The public client of the species API (src/unnamed/part_001) *)

\* a row as the body of a JSON response
Body(row) == IF row = NoRow THEN NoRow ELSE ToJson(Obj(row)).m

\* GET /api/public/species: the backend route answers with the repository's
\* findAll of the query parameters
apiFindAll(st, request) ==
    {[data |-> [i \in DOMAIN a.data |-> Body(a.data[i])], pagination |-> a.pagination] :
        a \in findAll(st, request)}

\* GET /api/public/species/slug/:slug
apiFindBySlug(st, slug) == Body(findBySlug(st, slug))

\* GET /api/public/species/:id
apiFindById(st, id) == Body(findById(st, id, FALSE))

\* a || b on numbers
OrNum(a, b) == IF a # 0 THEN a ELSE b

\* item.mainImage?.url || item.mainImageUrl || null
mainImageUrl(item) ==
    LET viaImage ==
            IF item["mainImage"].t = "obj" /\ "url" \in DOMAIN item["mainImage"].m
            THEN item["mainImage"].m["url"] ELSE Undef
        flat == IF "mainImageUrl" \in DOMAIN item THEN item["mainImageUrl"] ELSE Undef
    IN IF Truthy(viaImage) THEN viaImage ELSE IF Truthy(flat) THEN flat ELSE Null

\* a client that lists without forcing the status
findPublishedRequest_noStatus(params) ==
    [page |-> Num(OrDefault(params.page, DefaultPage)),
     limit |-> Num(OrDefault(params.limit, DefaultLimit)),
     status |-> Undef,
     mainGroup |-> params.mainGroup]

\* part_001 lines 65-73: the query findPublished sends; filters are the keys
\* of PaginateParams (lines 37-51) other than page and limit, status is none
\* of them
findPublishedRequest(params) ==
    [page |-> Num(OrDefault(params.page, DefaultPage)),
     limit |-> Num(OrDefault(params.limit, DefaultLimit)),
     status |-> Str("published"),
     mainGroup |-> params.mainGroup]

\* part_001 lines 75-89: the answer built from a response
findPublishedAnswer(response, params) ==
    [data |-> [i \in DOMAIN response.data |->
                  Spread(response.data[i],
                         "mainImageUrl" :> mainImageUrl(response.data[i]))],
     pagination |->
        [page |-> OrNum(response.pagination.page, OrDefault(params.page, DefaultPage)),
         pageSize |-> OrNum(response.pagination.limit, OrDefault(params.limit, DefaultLimit)),
         total |-> OrNum(response.pagination.total, 0),
         totalPages |-> OrNum(response.pagination.totalPages, 0)]]

\* a fallback that forgets the page that was asked for
findPublishedFallback_firstPage(params) ==
    [data |-> << >>,
     pagination |-> [page |-> DefaultPage,
                     pageSize |-> OrDefault(params.limit, DefaultLimit),
                     total |-> 0, totalPages |-> 0]]

\* part_001 lines 90-93: the answer when the request throws
findPublishedFallback(params) ==
    [data |-> << >>,
     pagination |-> [page |-> OrDefault(params.page, DefaultPage),
                     pageSize |-> OrDefault(params.limit, DefaultLimit),
                     total |-> 0, totalPages |-> 0]]

\* findPublished(params), part_001 lines 64-94; ok: the request succeeds
findPublished(st, params, ok) ==
    IF ok
    THEN {findPublishedAnswer(response, params) :
             response \in apiFindAll(st, findPublishedRequest(params))}
    ELSE {findPublishedFallback(params)}

\* findBySlug(slug) of the client, part_001 lines 96-122
publicFindBySlug(st, slug, ok) ==
    LET response == apiFindBySlug(st, slug)
    IN IF ~ok \/ response = NoRow \/ response["status"] # Str("published")
       THEN Null
       ELSE Spread(response,
               ("mainImageUrl" :> mainImageUrl(response))
                 @@ ("images" :>
                       IF Truthy(response["galleryImages"])
                       THEN Arr([i \in DOMAIN response["galleryImages"].a |->
                                   response["galleryImages"].a[i].m["url"]])
                       ELSE Null))

\* findById(id) of the client, part_001 lines 124-139
publicFindById(st, id, ok) ==
    LET response == apiFindById(st, id)
    IN IF ~ok \/ response = NoRow
       THEN Null
       ELSE Spread(response, "mainImageUrl" :> mainImageUrl(response))

\* getLastPublished(limit = 3), part_001 line 155
DefaultLast == 3

\* part_001 lines 157-163: the query getLastPublished sends
getLastPublishedRequest(limit) ==
    [page |-> Num(1),
     limit |-> Num(OrDefault(limit, DefaultLast)),
     status |-> Str("published"),
     mainGroup |-> Undef,
     sortBy |-> Str("publishedAt"),
     sortOrder |-> Str("desc")]

\* getLastPublished(limit), part_001 lines 155-173
getLastPublished(st, limit, ok) ==
    IF ok
    THEN {[i \in DOMAIN response.data |->
              Spread(response.data[i],
                     "mainImageUrl" :> mainImageUrl(response.data[i]))] :
             response \in apiFindAll(st, getLastPublishedRequest(limit))}
    ELSE {<< >>}

\* part_001 lines 143-147: the query getTotalPublished sends
getTotalPublishedRequest ==
    [page |-> Num(1), limit |-> Num(1), status |-> Str("published"),
     mainGroup |-> Undef]

\* getTotalPublished(), part_001 lines 141-153: response.total || 0
getTotalPublished(st, ok) ==
    IF ok
    THEN {OrNum(IF "total" \in DOMAIN response THEN response.total ELSE 0, 0) :
             response \in apiFindAll(st, getTotalPublishedRequest)}
    ELSE {0}

---------------------------------------------------------------------------
(* The public clients of news (src/unnamed/part_000) and protected areas   *)
(* (src/unnamed/part_002).  Their backends are not part of the sources, so *)
(* the clients are modelled where the request throws: every method has its *)
(* whole body in one try block, and the catch gives the answer.            *)

\* const { page = 1, limit = 10, ... } = params, part_000 line 47
NewsDefaultLimit == 10
\* const { page = 1, limit = 20, ... } = params, part_002 line 61
AreaDefaultLimit == 20

Methods ==
    {"findPublished", "findBySlug", "findById", "getLastPublished",
     "getTotalPublished"}

\* the catch of each method of NewsRepository: part_000 lines 73-76, 90-93,
\* 107-110, 127-130, 141-144
newsCatch(method, params) ==
    CASE method = "findPublished" ->
            [data |-> << >>,
             pagination |-> [page |-> OrDefault(params.page, DefaultPage),
                             pageSize |-> OrDefault(params.limit, NewsDefaultLimit),
                             total |-> 0, totalPages |-> 0]]
      [] method \in {"findBySlug", "findById"} -> Null
      [] method = "getLastPublished" -> << >>
      [] method = "getTotalPublished" -> 0

\* the catch of each method of ProtectedAreaRepository: part_002 lines
\* 87-90, 114-117, 141-144, 162-165, 176-179
areaCatch(method, params) ==
    CASE method = "findPublished" ->
            [data |-> << >>,
             pagination |-> [page |-> OrDefault(params.page, DefaultPage),
                             pageSize |-> OrDefault(params.limit, AreaDefaultLimit),
                             total |-> 0, totalPages |-> 0]]
      [] method \in {"findBySlug", "findById"} -> Null
      [] method = "getLastPublished" -> << >>
      [] method = "getTotalPublished" -> 0

---------------------------------------------------------------------------
(* Listing queries over a table snapshot *)

PageInputs == {Undef} \cup {Num(n) : n \in 1..MaxPage}
LimitInputs == {Undef, Num(1), Num(2)}
\* no group, a valid group, and one outside the allow-list
GroupInputs == {Undef, Str("mammal"), Str("dragon")}
\* no status, the public one, and one outside the enum
StatusInputs == {Undef, Str("published"), Str("deleted")}

FindAllInputs ==
    [page : PageInputs, limit : LimitInputs, status : StatusInputs,
     mainGroup : GroupInputs]

FindPublishedInputs ==
    [page : PageInputs, limit : LimitInputs, mainGroup : GroupInputs]

GroupOf(i) == IF i = 2 THEN "bird" ELSE "mammal"

\* the times row i may have been created at: row 2 together with row 1 or
\* after it, the others later
CreatedAtOf(i) == IF i = 1 THEN {0} ELSE IF i = 2 THEN {0, 1} ELSE {2}

\* the time row i was published at: row 1, the oldest, was published last
PublishedAtOf(i) == IF i = 1 THEN 5 ELSE i

\* a stored row: published, published with an edit pending, never published,
\* or archived
SnapshotRow(i, kind, t) ==
    InsertedRow(i,
        ("slug" :> Str(SlugOf(i))) @@ ("commonName" :> Str(SlugOf(i)))
          @@ ("mainGroup" :> Str(GroupOf(i)))
          @@ ("mainImage" :> IF i = 1 THEN Obj("url" :> Str("puma.jpg")) ELSE Null)
          @@ ("status" :> Str(IF kind = "dirty" THEN "published" ELSE kind))
          @@ ("publishedAt" :> IF kind = "draft" THEN Null ELSE Date(PublishedAtOf(i)))
          @@ ("draftData" :>
                IF kind = "dirty" THEN Obj("commonName" :> Str("borrador")) ELSE Null)
          @@ ("hasDraft" :> Bool(kind = "dirty"))
          @@ ("draftCreatedAt" :> IF kind = "dirty" THEN Date(t) ELSE Null),
        t)

SnapshotKinds == {"published", "dirty", "draft", "archived", "absent"}

Snapshots ==
    UNION {{{SnapshotRow(i, f[i], g[i]) : i \in {j \in 1..MaxRows : f[j] # "absent"}} :
               g \in {h \in [1..MaxRows -> 0..2] :
                         \A i \in 1..MaxRows : h[i] \in CreatedAtOf(i)}} :
           f \in [1..MaxRows -> SnapshotKinds]}

InitQuery ==
    /\ store \in Snapshots
    /\ nextId = MaxRows + 1
    /\ now = 1
    /\ call = [p \in Procs |-> Idle]
    /\ calls = 0
    /\ hist = << >>
    /\ acked = [i \in Ids |-> EmptyMap]
    /\ listing = NoRow
    /\ users = InitUserRows
    /\ clerk = InitClerk

\* A run asks one query of its snapshot and keeps the answer; queries leave
\* the table as it is, so a later query answers as a first one does.
Answered(op, params, ok, out) ==
    /\ listing = NoRow
    /\ listing' = [op |-> op, params |-> params, ok |-> ok, out |-> out]
    /\ UNCHANGED <<users, clerk, store, nextId, now, call, calls, hist, acked>>

findAllCall ==
    \E params \in FindAllInputs :
        \E out \in findAll(store, params) :
            Answered("findAll", params, TRUE, out)

\* a caller that pages through a listing: after page k of fewer than
\* totalPages it asks for page k + 1 with the same filters and limit; the
\* pages it has are kept in the history
findAllNextPage ==
    /\ listing # NoRow
    /\ listing.op = "findAll"
    /\ Len(hist) + 1 = listing.out.pagination.page
    /\ listing.out.pagination.page < listing.out.pagination.totalPages
    /\ listing.out.pagination.page < MaxPage
    /\ LET params == [listing.params EXCEPT
                        !.page = Num(listing.out.pagination.page + 1)]
       IN \E out \in findAll(store, params) :
             /\ listing' = [op |-> "findAll", params |-> params, ok |-> TRUE,
                            out |-> out]
             /\ hist' = Append(hist, listing)
    /\ UNCHANGED <<users, clerk, store, nextId, now, call, calls, acked>>

findPublishedCall ==
    \E params \in FindPublishedInputs, ok \in BOOLEAN :
        \E out \in findPublished(store, params, ok) :
            Answered("findPublished", params, ok, out)

publicFindBySlugCall ==
    \E i \in 1..MaxRows, ok \in BOOLEAN :
        Answered("findBySlug", [slug |-> SlugOf(i)], ok,
                 publicFindBySlug(store, SlugOf(i), ok))

publicFindByIdCall ==
    \E i \in 1..MaxRows, ok \in BOOLEAN :
        Answered("findById", [id |-> i], ok, publicFindById(store, i, ok))

LastInputs == {Undef, Num(1)}

getLastPublishedCall ==
    \E limit \in LastInputs, ok \in BOOLEAN :
        \E out \in getLastPublished(store, limit, ok) :
            Answered("getLastPublished", [limit |-> limit], ok, out)

getTotalPublishedCall ==
    \E ok \in BOOLEAN :
        \E out \in getTotalPublished(store, ok) :
            Answered("getTotalPublished", EmptyMap, ok, out)

\* the arguments a method of a client is called with
ArgsOf(method) ==
    CASE method = "findPublished" -> FindPublishedInputs
      [] method = "findBySlug" -> {[slug |-> SlugOf(i)] : i \in 1..MaxRows}
      [] method = "findById" -> {[id |-> i] : i \in 1..MaxRows}
      [] method = "getLastPublished" -> {[limit |-> l] : l \in LastInputs}
      [] method = "getTotalPublished" -> {EmptyMap}

\* a call of the news client whose request throws
newsCallFails ==
    \E method \in Methods :
        \E params \in ArgsOf(method) :
            Answered("news", [method |-> method, args |-> params], FALSE,
                     newsCatch(method, params))

\* a call of the protected areas client whose request throws
areaCallFails ==
    \E method \in Methods :
        \E params \in ArgsOf(method) :
            Answered("protectedAreas", [method |-> method, args |-> params],
                     FALSE, areaCatch(method, params))

NextQuery ==
    \/ findAllCall
    \/ findAllNextPage
    \/ findPublishedCall
    \/ publicFindBySlugCall
    \/ publicFindByIdCall
    \/ getLastPublishedCall
    \/ getTotalPublishedCall
    \/ newsCallFails
    \/ areaCallFails

---------------------------------------------------------------------------
(* UsersService.update (users.service.ts lines 57-118).  UsersRepository   *)
(* and the identity provider's client are not part of the sources: findById *)
(* and findByClerkId are taken to select by the column they name, update to *)
(* set the fields of the request on the row with that id and give it back,  *)
(* getUser and updateUser to answer or throw as the provider decides.       *)

\* ids a request may name: the two users and one that does not exist
TargetIds == {1, 2, 3}

\* requests with a role, without one, and with both
DtoInputs ==
    { "role" :> "admin",
      "role" :> "content_editor",
      "firstName" :> "Eva",
      ("role" :> "user") @@ ("firstName" :> "Eva") }

\* the caller's role is a string the service trusts
CallerRoles == {"admin", "content_editor"}

UserById(us, id) ==
    IF \E r \in us : r.id = id THEN CHOOSE r \in us : r.id = id ELSE NoRow

UserByClerkId(us, c) ==
    IF \E r \in us : r.clerkId = c THEN CHOOSE r \in us : r.clerkId = c ELSE NoRow

\* usersRepository.update(id, updateUserDto), line 80
usersRepositoryUpdate(us, id, dto) ==
    {IF r.id = id THEN Spread(r, dto) ELSE r : r \in us}

\* what update answers its caller with: a return value or an exception
Returned(params, res, out) ==
    listing' = [op |-> "usersUpdate", params |-> params, ok |-> res = "ok",
                res |-> res, out |-> out]

\* an update whose self check lets admins through
usersUpdateFind_adminSelf(p, max, id, dto, currentUserId, currentUserRole) ==
    /\ Begin(p, max)
    /\ LET user == UserById(users, id)
           params == [id |-> id, dto |-> dto, currentUserId |-> currentUserId,
                      currentUserRole |-> currentUserRole]
       IN IF user = NoRow
          THEN Returned(params, "NotFound", NoRow) /\ call' = call
          ELSE IF "role" \in DOMAIN dto /\ currentUserRole # "admin"
          THEN Returned(params, "Forbidden", NoRow) /\ call' = call
          ELSE /\ call' = [call EXCEPT ![p] =
                     [at |-> "usersUpdateWrite", id |-> id, patch |-> params,
                      current |-> user, result |-> NoRow]]
               /\ listing' = listing
    /\ UNCHANGED <<store, nextId, now, hist, acked, users, clerk>>

\* lines 64-77: the select and the three throws that follow it
usersUpdateFind(p, max, id, dto, currentUserId, currentUserRole) ==
    /\ Begin(p, max)
    /\ LET user == UserById(users, id)
           params == [id |-> id, dto |-> dto, currentUserId |-> currentUserId,
                      currentUserRole |-> currentUserRole]
       IN IF user = NoRow
          THEN Returned(params, "NotFound", NoRow) /\ call' = call
          ELSE IF user.clerkId = currentUserId /\ "role" \in DOMAIN dto
          THEN Returned(params, "Forbidden", NoRow) /\ call' = call
          ELSE IF "role" \in DOMAIN dto /\ currentUserRole # "admin"
          THEN Returned(params, "Forbidden", NoRow) /\ call' = call
          ELSE /\ call' = [call EXCEPT ![p] =
                     [at |-> "usersUpdateWrite", id |-> id, patch |-> params,
                      current |-> user, result |-> NoRow]]
               /\ listing' = listing
    /\ UNCHANGED <<store, nextId, now, hist, acked, users, clerk>>

\* lines 80-87: the local update; the role is pushed when there is one in
\* the request and the update gave a row back
usersUpdateWrite(p) ==
    /\ call[p].at = "usersUpdateWrite"
    /\ LET c == call[p]
           us == usersRepositoryUpdate(users, c.id, c.patch.dto)
           updatedUser == UserById(us, c.id)
       IN /\ users' = us
          /\ IF "role" \in DOMAIN c.patch.dto /\ updatedUser # NoRow
             THEN /\ call' = [call EXCEPT ![p] =
                        [c EXCEPT !.at = "syncGetUser", !.result = updatedUser]]
                  /\ listing' = listing
             ELSE /\ call' = [call EXCEPT ![p] = Idle]
                  /\ Returned(c.patch, "ok", updatedUser)
    /\ UNCHANGED <<store, nextId, now, calls, hist, acked, clerk>>

\* lines 93-94, 113-117: getUser; when it throws, the catch logs and update
\* returns updatedUser
syncGetUser(p) ==
    /\ call[p].at = "syncGetUser"
    /\ LET c == call[p]
       IN \E answers \in BOOLEAN :
             IF answers
             THEN /\ call' = [call EXCEPT ![p] =
                        [at |-> "syncFindByClerkId", id |-> c.id,
                         patch |-> c.patch, current |-> c.current,
                         result |-> c.result,
                         currentMetadata |-> clerk.meta[c.current.clerkId]]]
                  /\ listing' = listing
             ELSE /\ call' = [call EXCEPT ![p] = Idle]
                  /\ Returned(c.patch, "ok", c.result)
    /\ UNCHANGED <<store, nextId, now, calls, hist, acked, users, clerk>>

\* lines 97-100: the user is read again by clerkId; the throw when there is
\* none is caught too
syncFindByClerkId(p) ==
    /\ call[p].at = "syncFindByClerkId"
    /\ LET c == call[p]
           dbUser == UserByClerkId(users, c.current.clerkId)
       IN IF dbUser # NoRow
          THEN /\ call' = [call EXCEPT ![p] =
                     [at |-> "syncUpdateUser", id |-> c.id, patch |-> c.patch,
                      current |-> c.current, result |-> c.result,
                      currentMetadata |-> c.currentMetadata,
                      dbUser |-> dbUser]]
               /\ listing' = listing
          ELSE /\ call' = [call EXCEPT ![p] = Idle]
               /\ Returned(c.patch, "ok", c.result)
    /\ UNCHANGED <<store, nextId, now, calls, hist, acked, users, clerk>>

\* a push whose failure undoes the local update and fails the request
syncUpdateUser_rollsBack(p) ==
    /\ call[p].at = "syncUpdateUser"
    /\ LET c == call[p]
       IN \E answers \in BOOLEAN :
             IF answers
             THEN /\ clerk' = [meta |-> [clerk.meta EXCEPT ![c.current.clerkId] =
                                 Spread(c.currentMetadata,
                                        ("role" :> c.patch.dto["role"])
                                          @@ ("userId" :> c.dbUser.id))],
                               pushes |-> clerk.pushes + 1]
                  /\ users' = users
                  /\ Returned(c.patch, "ok", c.result)
             ELSE /\ clerk' = clerk
                  /\ users' = usersRepositoryUpdate(users, c.id,
                                  "role" :> c.current.role)
                  /\ Returned(c.patch, "UpstreamSyncFailure", NoRow)
    /\ call' = [call EXCEPT ![p] = Idle]
    /\ UNCHANGED <<store, nextId, now, calls, hist, acked>>

\* lines 103-117, 87: updateUser with the metadata read before, the new role
\* and the user's id; when it throws, the catch logs; update returns
\* updatedUser either way
syncUpdateUser(p) ==
    /\ call[p].at = "syncUpdateUser"
    /\ LET c == call[p]
       IN /\ \E answers \in BOOLEAN :
                clerk' = IF answers
                         THEN [meta |-> [clerk.meta EXCEPT ![c.current.clerkId] =
                                  Spread(c.currentMetadata,
                                         ("role" :> c.patch.dto["role"])
                                           @@ ("userId" :> c.dbUser.id))],
                               pushes |-> clerk.pushes + 1]
                         ELSE clerk
          /\ Returned(c.patch, "ok", c.result)
    /\ users' = users
    /\ call' = [call EXCEPT ![p] = Idle]
    /\ UNCHANGED <<store, nextId, now, calls, hist, acked>>

\* deleteUserByClerkId(clerkId), lines 170-172: the provider's webhook
deleteUserByClerkId(c) ==
    /\ users' = {r \in users : r.clerkId # c}
    /\ users' # users
    /\ UNCHANGED <<store, nextId, now, call, calls, hist, acked, listing, clerk>>

\* one administrator's console calling update, one call at a time, while
\* the provider's webhook may delete users
NextUsers ==
    \/ \E id \in TargetIds, dto \in DtoInputs, me \in ClerkIds,
          role \in CallerRoles :
           usersUpdateFind("e1", MaxCalls, id, dto, me, role)
    \/ usersUpdateWrite("e1")
    \/ syncGetUser("e1")
    \/ syncFindByClerkId("e1")
    \/ syncUpdateUser("e1")
    \/ \E c \in ClerkIds : deleteUserByClerkId(c)

---------------------------------------------------------------------------
(* Specifications *)

\* the draft workflow of the editors in P on the records I; h: whether the
\* history is kept; max: the number of calls a run may start
Draft(P, h, I, max) ==
    \/ \E p \in P, id \in I, patch \in PatchInputs :
           createDraftSelect(p, h, max, id, patch)
    \/ \E p \in P : createDraftUpdate(p, h)
    \/ \E p \in P, id \in I : discardDraft(p, h, max, id)
    \/ \E p \in P, id \in I : publishSelect(p, h, max, id)
    \/ \E p \in P : publishUpdateDraft(p, h)
    \/ \E p \in P : publishVerify(p, h)
    \/ \E p \in P : publishUpdatePlain(p, h)

Crud(P, h, I, max) ==
    \/ \E p \in P, data \in CreateInputs : create(p, h, max, data)
    \/ \E p \in P, id \in I, data \in UpdateInputs : update(p, h, max, id, data)
    \/ \E p \in P, id \in I : delete(p, h, max, id)

Next == Draft(Procs, FALSE, Ids, MaxConcCalls) \/ Crud(Procs, FALSE, Ids, MaxConcCalls) \/ Tick

NextSeq ==
    \/ Draft({"e1"}, TRUE, {1}, MaxCalls)
    \/ \E data \in UpdateInputs : update("e1", TRUE, MaxCalls, 1, data)
    \/ Tick

\* one editor on record 1, the only record, with patches that name the id
NextId ==
    \/ \E patch \in IdPatchInputs : createDraftSelect("e1", TRUE, MaxCalls, 1, patch)
    \/ createDraftUpdate("e1", TRUE)
    \/ discardDraft("e1", TRUE, MaxCalls, 1)
    \/ publishSelect("e1", TRUE, MaxCalls, 1)
    \/ publishUpdateDraft("e1", TRUE)
    \/ publishVerify("e1", TRUE)
    \/ publishUpdatePlain("e1", TRUE)
    \/ Tick

NextLock ==
    \/ \E u \in Users : acquireLock(u, MaxCalls, 1)
    \/ \E u \in Users : releaseLock(u, MaxCalls, 1)
    \/ Tick

\* record 1 is locked by another user while the editors work on it
InitLocked ==
    /\ store \in {{Locked(r)} : r \in InitRows}
    /\ nextId = 2
    /\ now = 0
    /\ call = [p \in Procs |-> Idle]
    /\ calls = 0
    /\ hist = << >>
    /\ acked = [i \in Ids |-> EmptyMap]
    /\ listing = NoRow
    /\ users = InitUserRows
    /\ clerk = InitClerk

NextLocked == Draft(Procs, TRUE, {1}, MaxConcCalls) \/ Tick

\* one editor working alone on records that may be absent, created or
\* deleted, with the history of the calls kept
NextAll ==
    \/ Draft({"e1"}, TRUE, Ids, MaxConcCalls)
    \/ Crud({"e1"}, TRUE, Ids, MaxConcCalls)
    \/ Tick

\* editor e1 saving drafts of record 1 while editor e2 publishes it, with the
\* history of the calls kept
NextRace ==
    \/ \E patch \in PatchInputs :
           createDraftSelect("e1", TRUE, MaxConcCalls, 1, patch)
    \/ createDraftUpdate("e1", TRUE)
    \/ publishSelect("e2", TRUE, MaxConcCalls, 1)
    \/ publishUpdateDraft("e2", TRUE)
    \/ publishVerify("e2", TRUE)
    \/ publishUpdatePlain("e2", TRUE)
    \/ Tick

\* concurrent requests: the awaits of two handlers interleave
Spec == Init /\ [][Next]_vars

\* one editor working alone on record 1, with the history of the calls kept
SpecSeq == Init /\ [][NextSeq]_vars

\* one editor working alone, every operation, on every id
SpecAll == Init /\ [][NextAll]_vars

\* drafts that name the primary key
SpecId == Init /\ [][NextId]_vars

\* createDraft racing publish on record 1
SpecRace == Init /\ [][NextRace]_vars

\* role changes through UsersService.update
SpecUsers == InitUsers /\ [][NextUsers]_vars

\* users taking and giving back the lock of record 1
SpecLock == Init /\ [][NextLock]_vars

\* two editors working on a record that a third user holds the lock of
SpecLocked == InitLocked /\ [][NextLocked]_vars

\* listings and public reads asked of a table snapshot
SpecQuery == InitQuery /\ [][NextQuery]_vars

---------------------------------------------------------------------------
(* Properties *)

IdOf(r) == r["id"].n

\* C1: in every record, hasDraft is true exactly when draftData is not null,
\* after any interleaving of the select and update steps of createDraft,
\* discardDraft and publish.
C1_HasDraftIffDraftData ==
    \A r \in store : r["hasDraft"] = Bool(r["draftData"] # Null)

\* a draft written after a publish of time 1: both operations have acted
C1_Witness ==
    /\ calls >= 2
    /\ \E r \in store :
          /\ r["hasDraft"] = Bool(TRUE)
          /\ r["draftData"] # Null
          /\ r["publishedAt"] = Date(1)

\* C2: no lost update between concurrent createDraft calls: once two callers
\* have each had a createDraft on a record acknowledged, on different keys,
\* draftData holds every acknowledged key with the acknowledged value.
C2_NoLostUpdate ==
    \A r \in store :
        LET a == acked[IdOf(r)]
        IN (\E j, k \in DOMAIN a : a[j].by # a[k].by)
           => \A k \in DOMAIN a :
                 /\ Truthy(r["draftData"])
                 /\ k \in DOMAIN r["draftData"].m
                 /\ r["draftData"].m[k] = a[k].v

Ok(e, op) == e.op = op /\ e.res = "ok"

\* the last two calls were createDraft(id, patch) then publish(id), both
\* successful
DraftThenPublish ==
    /\ Len(hist) >= 2
    /\ Ok(hist[Len(hist) - 1], "createDraft")
    /\ Ok(hist[Len(hist)], "publish")
    /\ hist[Len(hist)].id = hist[Len(hist) - 1].id

\* C3: round trip: after createDraft(id, {f: x}) then publish(id), the record
\* publish returns, and the stored record, have published field f equal to x,
\* explicit null and nested content included.
C3_RoundTrip ==
    DraftThenPublish =>
        LET cd == hist[Len(hist) - 1]
            pub == hist[Len(hist)]
        IN \A f \in DOMAIN cd.patch \cap PublishedFields :
              cd.patch[f] # Undef =>
                 /\ pub.ret[f] = cd.patch[f]
                 /\ findById(store, pub.id, FALSE)[f] = cd.patch[f]

\* an explicit null for richContent went through publish on a record whose
\* published richContent was not null
C3_Witness ==
    /\ DraftThenPublish
    /\ hist[Len(hist) - 1].patch = ("richContent" :> Null)
    /\ hist[Len(hist) - 1].pre["richContent"] = RichB
    /\ hist[Len(hist)].ret["richContent"] = Null

\* the last three calls were createDraft, createDraft, publish on one record,
\* all successful
TwoDraftsThenPublish ==
    /\ Len(hist) >= 3
    /\ Ok(hist[Len(hist) - 2], "createDraft")
    /\ Ok(hist[Len(hist) - 1], "createDraft")
    /\ Ok(hist[Len(hist)], "publish")
    /\ hist[Len(hist) - 1].id = hist[Len(hist) - 2].id
    /\ hist[Len(hist)].id = hist[Len(hist) - 2].id

\* the keys of the draft pending on a row
PendingKeys(row) ==
    IF Truthy(row["draftData"]) THEN DOMAIN row["draftData"].m ELSE {}

\* the published record has the later patch's values, and the earlier
\* patch's values for the keys the later patch does not name
OverlayOfBoth(a, b, ret) ==
    /\ \A k \in DOMAIN b \cap PublishedFields : b[k] # Undef => ret[k] = b[k]
    /\ \A k \in (DOMAIN a \ DOMAIN b) \cap PublishedFields :
          a[k] # Undef => ret[k] = a[k]

\* C4 as stated: createDraft({a:1}), createDraft({b:2}), publish gives a = 1
\* and b = 2, a later patch overwriting an earlier one on the same key, and
\* every published field named in neither patch keeps the value it had before
\* the first createDraft.
C4_OverlayUntouchedKeepValue ==
    TwoDraftsThenPublish =>
        LET a == hist[Len(hist) - 2]
            b == hist[Len(hist) - 1]
            pub == hist[Len(hist)]
        IN /\ OverlayOfBoth(a.patch, b.patch, pub.ret)
           /\ \A f \in PublishedFields \ (DOMAIN a.patch \cup DOMAIN b.patch) :
                 pub.ret[f] = a.pre[f]

\* C4 amended: the same, where a published field named in neither patch keeps
\* its value unless a draft pending before the first createDraft names it.
C4_OverlayCorrect ==
    TwoDraftsThenPublish =>
        LET a == hist[Len(hist) - 2]
            b == hist[Len(hist) - 1]
            pub == hist[Len(hist)]
        IN /\ OverlayOfBoth(a.patch, b.patch, pub.ret)
           /\ \A f \in PublishedFields \ (DOMAIN a.patch \cup DOMAIN b.patch) :
                 f \notin PendingKeys(a.pre) => pub.ret[f] = a.pre[f]

\* commonName then richContent drafted on a clean record and published: both
\* are live and description kept its value
C4_Witness ==
    /\ TwoDraftsThenPublish
    /\ hist[Len(hist) - 2].patch = ("commonName" :> Str("Puma concolor"))
    /\ hist[Len(hist) - 1].patch = ("richContent" :> RichA)
    /\ PendingKeys(hist[Len(hist) - 2].pre) = {}
    /\ hist[Len(hist)].ret["commonName"] = Str("Puma concolor")
    /\ hist[Len(hist)].ret["richContent"] = RichA
    /\ hist[Len(hist)].ret["description"] = Str("gato")

\* the step of p is the update of a draft-backed publish that hit the record
PublishDraftStep(p) ==
    call[p].at = "publishUpdateDraft" /\ call'[p].at = "publishVerify"

\* the step of p is the update of a createDraft
CreateDraftStep(p) ==
    call[p].at = "createDraftUpdate" /\ call'[p].at = "idle"

\* C5: the one update of a successful publish of a record with draft data
\* leaves draftData null, hasDraft false, draftCreatedAt null and status
\* published, with publishedAt and updatedAt set to the time of the update,
\* whatever keys the draft holds; the row it returns is that row.
C5_PublishClearsDraft ==
    [][\A p \in Procs :
          PublishDraftStep(p) =>
             LET r == findById(store', call[p].id, FALSE)
             IN /\ r # NoRow
                /\ r["draftData"] = Null
                /\ r["hasDraft"] = Bool(FALSE)
                /\ r["draftCreatedAt"] = Null
                /\ r["status"] = Str("published")
                /\ r["publishedAt"] = Date(now)
                /\ r["updatedAt"] = Date(now)
                /\ call'[p].result = r]_vars

\* a publish has just written a draft that itself held status and hasDraft
C5_Witness ==
    \E p \in Procs :
        /\ call[p].at = "publishVerify"
        /\ {"status", "hasDraft"} \subseteq PendingKeys(call[p].current)

\* the columns createDraft leaves alone
LiveColumns == Columns \ {"draftData", "hasDraft", "draftCreatedAt", "updatedAt"}

\* C6: the update of createDraft changes no column of any record but
\* draftData, hasDraft, draftCreatedAt and updatedAt, so findById without
\* includeDraft shows the same status and published fields before and after;
\* the update of publish is what makes a drafted commonName the live one.
C6_CreateDraftKeepsLive ==
    [][\A p \in Procs :
          /\ CreateDraftStep(p) =>
                \A id \in Ids :
                   LET before == findById(store, id, FALSE)
                       after == findById(store', id, FALSE)
                   IN /\ (before = NoRow) = (after = NoRow)
                      /\ before # NoRow =>
                            \A c \in LiveColumns : after[c] = before[c]
          /\ (PublishDraftStep(p) /\ "commonName" \in PendingKeys(call[p].current)) =>
                findById(store', call[p].id, FALSE)["commonName"]
                    = call[p].current["draftData"].m["commonName"]]_vars

\* "Puma concolor" is pending in the draft while the live name is still "Puma"
C6_Witness ==
    \E r \in store :
        /\ r["commonName"] = Str("Puma")
        /\ "commonName" \in PendingKeys(r)
        /\ r["draftData"].m["commonName"] = Str("Puma concolor")
        /\ findById(store, IdOf(r), FALSE)["commonName"] = Str("Puma")

\* the table with every draftData emptied: a table that differs from st in
\* draftData only
Scrub(st) == {[r EXCEPT !["draftData"] = Null] : r \in st}

\* the answer in listing came over the public path
PublicPath ==
    /\ listing # NoRow
    /\ \/ listing.op \in {"findPublished", "findBySlug", "findById"}
       \/ listing.op = "findAll" /\ listing.params.status = Str("published")

\* the answers the query in listing may get from table st
AnswersOf(st) ==
    CASE listing.op = "findAll" -> findAll(st, listing.params)
      [] listing.op = "findPublished" -> findPublished(st, listing.params, listing.ok)
      [] listing.op = "findBySlug" ->
            {publicFindBySlug(st, listing.params.slug, listing.ok)}
      [] listing.op = "findById" ->
            {publicFindById(st, listing.params.id, listing.ok)}

\* C7: public-path output does not depend on draftData: the answer given is
\* an answer the same query gets from the table with all draftData emptied.
C7_PublicOutputHidesDraftData ==
    PublicPath => listing.out \in AnswersOf(Scrub(store))

\* C8: every record in the data of findPublished has status published.
C8_FindPublishedOnlyPublished ==
    (listing # NoRow /\ listing.op = "findPublished") =>
        \A i \in DOMAIN listing.out.data :
            listing.out.data[i]["status"] = Str("published")

\* findPublished listed a record while an archived record is in the table
C8_Witness ==
    /\ listing # NoRow
    /\ listing.op = "findPublished"
    /\ listing.ok
    /\ Len(listing.out.data) >= 1
    /\ \E r \in store : r["status"] = Str("archived")

\* the last call was publish(id) on a record with no draft data and a status
\* other than draft
PublishOfCleanLive ==
    /\ Len(hist) >= 1
    /\ hist[Len(hist)].op = "publish"
    /\ hist[Len(hist)].pre # NoRow
    /\ hist[Len(hist)].pre["draftData"] = Null
    /\ hist[Len(hist)].pre["status"] # Str("draft")

\* the last two calls were publish(id) twice, the first one draft-backed and
\* successful
PublishTwice ==
    /\ Len(hist) >= 2
    /\ Ok(hist[Len(hist) - 1], "publish")
    /\ PendingKeys(hist[Len(hist) - 1].pre) # {}
    /\ hist[Len(hist)].op = "publish"
    /\ hist[Len(hist)].id = hist[Len(hist) - 1].id

\* C9: publish of an existing record with no draftData and a status other
\* than draft fails with 'Nothing to publish' and leaves the record as it
\* was; so does a second publish right after a draft-backed one.
C9_NothingToPublish ==
    /\ PublishOfCleanLive =>
          /\ hist[Len(hist)].res = "NothingToPublish"
          /\ findById(store, hist[Len(hist)].id, FALSE) = hist[Len(hist)].pre
    /\ PublishTwice =>
          /\ hist[Len(hist)].res = "NothingToPublish"
          /\ findById(store, hist[Len(hist)].id, FALSE) = hist[Len(hist) - 1].ret

\* a second publish right after a draft-backed publish was refused
C9_Witness ==
    /\ PublishTwice
    /\ hist[Len(hist)].res = "NothingToPublish"

\* the last call was discardDraft(id) on an existing record
DiscardDone ==
    /\ Len(hist) >= 1
    /\ hist[Len(hist)].op = "discardDraft"
    /\ hist[Len(hist)].pre # NoRow

\* the last two calls were discardDraft(id) twice
DiscardTwice ==
    /\ DiscardDone
    /\ Len(hist) >= 2
    /\ hist[Len(hist) - 1].op = "discardDraft"
    /\ hist[Len(hist) - 1].id = hist[Len(hist)].id

\* rows a and b agree on the columns cs
SameOn(cs, a, b) == \A c \in cs : a[c] = b[c]

\* C10 as stated: a second discardDraft in a row leaves the record state of
\* the first, discardDraft of a record with no draft changes nothing and is
\* no error, and status and published fields are never changed.
C10_DiscardIdempotent ==
    /\ DiscardDone =>
          /\ hist[Len(hist)].res = "ok"
          /\ SameOn(LiveColumns, hist[Len(hist)].ret, hist[Len(hist)].pre)
          /\ hist[Len(hist)].pre["draftData"] = Null =>
                hist[Len(hist)].ret = hist[Len(hist)].pre
    /\ DiscardTwice => hist[Len(hist)].ret = hist[Len(hist) - 1].ret

\* C10 amended: the same, up to updatedAt, which every discardDraft sets to
\* the time of its call; and a discardDraft leaves no draft.
C10_DiscardIdempotentUpToUpdatedAt ==
    /\ DiscardDone =>
          /\ hist[Len(hist)].res = "ok"
          /\ SameOn(LiveColumns, hist[Len(hist)].ret, hist[Len(hist)].pre)
          /\ hist[Len(hist)].ret["draftData"] = Null
          /\ hist[Len(hist)].ret["hasDraft"] = Bool(FALSE)
          /\ hist[Len(hist)].ret["draftCreatedAt"] = Null
          /\ hist[Len(hist)].ret["updatedAt"] \in {Date(t) : t \in 0..now}
          /\ hist[Len(hist)].pre["draftData"] = Null =>
                SameOn(Columns \ {"updatedAt"}, hist[Len(hist)].ret, hist[Len(hist)].pre)
    /\ DiscardTwice =>
          SameOn(Columns \ {"updatedAt"}, hist[Len(hist)].ret, hist[Len(hist) - 1].ret)

\* a draft was discarded, time passed, and it was discarded again
C10_Witness ==
    /\ DiscardTwice
    /\ PendingKeys(hist[Len(hist) - 1].pre) # {}
    /\ hist[Len(hist) - 1].ret["updatedAt"] # hist[Len(hist)].ret["updatedAt"]

\* the call that completes in this step
Completed == hist'[Len(hist')]

\* C11: a createDraft or publish that completes for an id no record has
\* fails with not-found, and the step changes no record.
C11_AbsentIsNotFound ==
    [][(/\ Len(hist') = Len(hist) + 1
        /\ Completed.op \in {"createDraft", "publish"}
        /\ WhereId(store, Completed.id) = {})
       => (Completed.res = "NotFound" /\ store' = store)]_vars

\* createDraft and publish were both refused for a missing id while
\* another record is in the table
C11_Witness ==
    /\ store # {}
    /\ \E i \in DOMAIN hist : hist[i].op = "createDraft" /\ hist[i].res = "NotFound"
    /\ \E i \in DOMAIN hist : hist[i].op = "publish" /\ hist[i].res = "NotFound"

\* this step completes a call of op with an answer, not an error
Completes(op) ==
    /\ Len(hist') = Len(hist) + 1
    /\ Ok(Completed, op)

DraftWorkflowOnly ==
    \A i \in DOMAIN hist :
        hist[i].op \in {"create", "createDraft", "discardDraft", "publish"}

\* C13: after any sequence of create, createDraft, discardDraft and publish
\* a record with draftData present has status published.
C13_DirtyIsPublished ==
    DraftWorkflowOnly =>
        \A r \in store : r["draftData"] # Null => r["status"] = Str("published")

\* the limit findAll works with
LimitOf(params) == OrDefault(params.limit, DefaultLimit)

\* C14: findAll reports, for every requested page, the number T of records
\* matching the filters as total, and ceil(T / limit) as totalPages.
C14_TotalIsMatchCount ==
    (listing # NoRow /\ listing.op = "findAll") =>
        LET T == Cardinality(whereClause(store, listing.params))
        IN /\ listing.out.pagination.total = T
           /\ listing.out.pagination.totalPages = CeilDiv(T, LimitOf(listing.params))

\* the caller has paged through the whole listing, pages 1..totalPages
PagedThrough ==
    /\ listing # NoRow
    /\ listing.op = "findAll"
    /\ Len(hist) + 1 = listing.out.pagination.page
    /\ listing.out.pagination.page = listing.out.pagination.totalPages

\* the records of the pages, in the order they came
RECURSIVE Concat(_)
Concat(pages) ==
    IF pages = << >> THEN << >>
    ELSE pages[1].out.data \o Concat(Tail(pages))

\* C15: the data of pages 1..totalPages of one listing, put together, are
\* exactly total records: each matching record once, none missing.
C15_PagesPartitionMatches ==
    PagedThrough =>
        LET all == Concat(Append(hist, listing))
        IN /\ Len(all) = listing.out.pagination.total
           /\ \A i, j \in DOMAIN all : i # j => all[i] # all[j]
           /\ {all[i] : i \in DOMAIN all} = whereClause(store, listing.params)

\* row a comes before row b: created later, or together and of lower id
Before(a, b) ==
    \/ a["createdAt"].d > b["createdAt"].d
    \/ a["createdAt"] = b["createdAt"] /\ IdOf(a) < IdOf(b)

\* C16: the data of findAll come most recently created first, records
\* created together by ascending id, and the same call on the same table has
\* one possible answer.
C16_OrderIsDetermined ==
    (listing # NoRow /\ listing.op = "findAll") =>
        /\ \A i, j \in DOMAIN listing.out.data :
              i < j => Before(listing.out.data[i], listing.out.data[j])
        /\ Cardinality(findAll(store, listing.params)) = 1

\* the published records of the table
Published == {r \in store : r["status"] = Str("published")}

\* C17: getLastPublished(n), which asks for sortBy publishedAt and sortOrder
\* desc, answers the n most recently published records, latest first.
C17_LastPublishedByPublication ==
    (listing # NoRow /\ listing.op = "getLastPublished" /\ listing.ok) =>
        LET out == listing.out
            n == OrDefault(listing.params.limit, DefaultLast)
        IN /\ Len(out) = IF Cardinality(Published) < n
                          THEN Cardinality(Published) ELSE n
           /\ \A i, j \in DOMAIN out :
                 i < j => out[i]["publishedAt"].d >= out[j]["publishedAt"].d
           /\ \A r \in Published :
                 \/ \E i \in DOMAIN out : out[i]["id"] = r["id"]
                 \/ \A i \in DOMAIN out :
                       out[i]["publishedAt"].d >= r["publishedAt"].d

\* the public read in listing asked for a slug or id that no published
\* record has
NotPublishedTarget ==
    /\ listing # NoRow
    /\ \/ /\ listing.op = "findBySlug"
          /\ ~\E r \in Published : r["slug"] = Str(listing.params.slug)
       \/ /\ listing.op = "findById"
          /\ ~\E r \in Published : IdOf(r) = listing.params.id

\* C18: the public findBySlug and findById answer null when the slug or id
\* is of no record, or of a record in draft or archived status.
C18_PublicReadNullUnlessPublished ==
    NotPublishedTarget => listing.out = Null

\* the client, the method and the arguments of the call in listing
KindOf == IF listing.op \in {"news", "protectedAreas"} THEN listing.op ELSE "species"
MethodOf == IF KindOf = "species" THEN listing.op ELSE listing.params.method
ArgsGiven == IF KindOf = "species" THEN listing.params ELSE listing.params.args

\* the page size a client lists with when none is asked for
PageSizeOf(kind) == IF kind = "news" THEN 10 ELSE 20

\* a call of a public client whose request to the backend failed
BackendFailed ==
    /\ listing # NoRow
    /\ ~listing.ok
    /\ MethodOf \in Methods

\* C19: when the request to the backend fails, each method of each of the
\* three clients still answers: findPublished with no data, total 0,
\* totalPages 0 and the page and limit asked for, findBySlug and findById
\* with null, getLastPublished with no records, getTotalPublished with 0.
C19_FailureDegrades ==
    BackendFailed =>
        CASE MethodOf = "findPublished" ->
                /\ listing.out.data = << >>
                /\ listing.out.pagination.total = 0
                /\ listing.out.pagination.totalPages = 0
                /\ listing.out.pagination.page =
                      IF ArgsGiven.page = Undef THEN 1 ELSE ArgsGiven.page.n
                /\ listing.out.pagination.pageSize =
                      IF ArgsGiven.limit = Undef THEN PageSizeOf(KindOf)
                      ELSE ArgsGiven.limit.n
          [] MethodOf \in {"findBySlug", "findById"} -> listing.out = Null
          [] MethodOf = "getLastPublished" -> listing.out = << >>
          [] MethodOf = "getTotalPublished" -> listing.out = 0

\* a listing of page 2 failed and was answered empty, as page 2
C19_Witness ==
    /\ BackendFailed
    /\ MethodOf = "findPublished"
    /\ ArgsGiven.page = Num(2)
    /\ ArgsGiven.limit = Num(1)
    /\ listing.out.pagination.page = 2
    /\ listing.out.data = << >>

\* row r with no edit lock
Unlock(r) == [c \in DOMAIN r |-> IF c \in LockColumns THEN Null ELSE r[c]]

\* an unexpired lock of another user is on row r, as it was at the start
HeldByOther(r) ==
    /\ r["lockedBy"] = OtherUser
    /\ r["lockedAt"] = Date(0)
    /\ r["lockExpiresAt"].d > now

\* C20: while another user holds an unexpired lock on the record, every
\* createDraft, discardDraft and publish of any caller goes through as it
\* would with no lock (publish is refused only when there is nothing to
\* publish), and the lock stays as it was.
C20_LockIsAdvisory ==
    /\ \A r \in store : HeldByOther(r)
    /\ \A i \in DOMAIN hist :
          LET e == hist[i]
          IN /\ HeldByOther(e.pre)
             /\ publishBranch(e.pre) = publishBranch(Unlock(e.pre))
             /\ createDraftSet(e.pre, e.patch, now)
                   = createDraftSet(Unlock(e.pre), e.patch, now)
             /\ e.res = IF /\ e.op = "publish"
                           /\ publishBranch(Unlock(e.pre)) = "NothingToPublish"
                        THEN "NothingToPublish" ELSE "ok"

\* two writers raced on the locked record: both createDraft calls read the
\* same row, both were answered, and the draft holds the second patch only
C20_Witness ==
    /\ Len(hist) = 2
    /\ Ok(hist[1], "createDraft")
    /\ Ok(hist[2], "createDraft")
    /\ hist[1].pre = hist[2].pre
    /\ HeldByOther(hist[1].pre)
    /\ DOMAIN hist[1].patch = {"commonName"}
    /\ DOMAIN hist[2].patch = {"richContent"}
    /\ \E r \in store : "commonName" \notin DOMAIN r["draftData"].m

\* C21: after a publish that was answered, the lock columns of the record
\* are null.
C21_PublishClearsLock ==
    \A i \in DOMAIN hist :
        Ok(hist[i], "publish") =>
            \A c \in LockColumns : hist[i].ret[c] = Null

\* the user who made the lock call that completes in this step
Caller == Completed.patch["userId"]

\* this step completes an acquireLock on a record that exists
Acquires ==
    /\ Len(hist') = Len(hist) + 1
    /\ Completed.op = "acquireLock"
    /\ Completed.pre # NoRow

\* C22: acquireLock is refused with LockConflict exactly when a different
\* user holds a lock that has not run out; otherwise it makes the caller the
\* holder; and no step takes a lock that has not run out from its holder
\* and gives it to another user.
C22_OneLockHolder ==
    [][/\ Acquires =>
            LET r == Completed.pre
                held == /\ r["lockedBy"] # Null
                        /\ r["lockedBy"] # Caller
                        /\ r["lockExpiresAt"].d > now
            IN IF held
               THEN Completed.res = "LockConflict" /\ store' = store
               ELSE /\ Completed.res = "ok"
                    /\ \A q \in WhereId(store', Completed.id) :
                          /\ q["lockedBy"] = Caller
                          /\ q["lockExpiresAt"].d > now
       /\ \A r \in store : \A q \in WhereId(store', IdOf(r)) :
             (r["lockedBy"] # Null /\ r["lockExpiresAt"].d > now) =>
                 q["lockedBy"] \in {r["lockedBy"], Null}]_vars

\* user 2 was refused the lock user 1 held, and got it once it had run out
C22_Witness ==
    /\ Len(hist) = 3
    /\ Ok(hist[1], "acquireLock") /\ hist[1].patch["userId"] = Num(1)
    /\ hist[2].op = "acquireLock" /\ hist[2].res = "LockConflict"
    /\ hist[2].patch["userId"] = Num(2)
    /\ Ok(hist[3], "acquireLock") /\ hist[3].patch["userId"] = Num(2)
    /\ hist[3].pre["lockedBy"] = Num(1)
    /\ \A r \in store : r["lockedBy"] = Num(2)

\* C25: whatever createDraft, discardDraft and publish are called with, the
\* one record of the table keeps its id.
C25_IdImmutable ==
    {r["id"] : r \in store} = {Num(1)}

\* a record with a pending draft: the flag is set and there is draft data
PendingDraft(r) ==
    r["hasDraft"] = Bool(TRUE) /\ r["draftData"].t = "obj"

\* C26: findById(id, TRUE) on a record with a pending draft answers, under
\* every key of draftData, the draft's value (null included), under every
\* other column the stored value, and isDraft = true; findById(id, FALSE),
\* and findById(id, TRUE) on a record without a pending draft, answer the
\* stored row.
C26_FindByIdOverlay ==
    \A r \in store :
        LET id == IdOf(r)
            with == findById(store, id, TRUE)
            without == findById(store, id, FALSE)
        IN /\ without = r
           /\ IF PendingDraft(r)
              THEN LET draft == r["draftData"].m
                   IN /\ DOMAIN with = DOMAIN r \cup DOMAIN draft \cup {"isDraft"}
                      /\ with["isDraft"] = Bool(TRUE)
                      /\ \A k \in DOMAIN draft \ {"isDraft"} : with[k] = draft[k]
                      /\ \A k \in DOMAIN r \ (DOMAIN draft \cup {"isDraft"}) :
                             with[k] = r[k]
              ELSE with = r

\* a record whose pending draft sets a field to null that the stored row has
\* a value of
C26_Witness ==
    \E r \in store :
        /\ PendingDraft(r)
        /\ "description" \in DOMAIN r["draftData"].m
        /\ r["draftData"].m["description"] = Null
        /\ r["description"] # Null
        /\ findById(store, IdOf(r), TRUE)["description"] = Null


\* one createDraft and one publish of record 1, which had a draft when each
\* of them read it, have both returned successfully, in either order, and no
\* other call has been made
DraftAndPublishDone ==
    /\ Len(hist) = 2
    /\ \A p \in Procs : call[p] = Idle
    /\ {hist[1].op, hist[2].op} = {"createDraft", "publish"}
    /\ \A i \in 1..2 : hist[i].res = "ok" /\ Truthy(hist[i].pre["draftData"])

\* C27: when createDraft(id, {k: v}) and publish(id) of a record with a draft
\* have both returned successfully, concurrent or not, v is the published
\* value of k or is still under k in draftData with hasDraft set.
C27_AckedPatchSurvivesPublish ==
    DraftAndPublishDone =>
        LET cd == IF hist[1].op = "createDraft" THEN hist[1] ELSE hist[2]
            r == findById(store, cd.id, FALSE)
        IN \A k \in DOMAIN cd.patch \cap PublishedFields :
              cd.patch[k] # Undef =>
                 \/ r[k] = cd.patch[k]
                 \/ /\ PendingDraft(r)
                    /\ k \in DOMAIN r["draftData"].m
                    /\ r["draftData"].m[k] = cd.patch[k]


\* C28: getTotalPublished() of the species client answers the number of
\* published records, which is what the listing reports in pagination.total
\* for status=published, and 0 when the call fails.
C28_TotalPublishedIsCount ==
    (listing # NoRow /\ listing.op = "getTotalPublished") =>
        listing.out = IF listing.ok THEN Cardinality(Published) ELSE 0


\* the request of the call of update that a step begins
RequestBegun ==
    IF call' = call THEN listing'.params
    ELSE call'[CHOOSE p \in Procs : call'[p] # call[p]].patch

\* how that step answers: with an exception, or by going on to the update
AnswerBegun ==
    IF call' = call THEN listing'.res ELSE "goes on"

\* C23: a call of update with a role in the request is refused with NotFound
\* when the target user does not exist, and with Forbidden when the target
\* exists and is the caller (an admin too) or the caller's role is not
\* admin; a refused call leaves the users table and the identity provider as
\* they were.
C23_RoleChangeRefused ==
    [][ calls' = calls + 1 =>
          LET target == UserById(users, RequestBegun.id)
              withRole == "role" \in DOMAIN RequestBegun.dto
              self == target # NoRow
                        /\ target.clerkId = RequestBegun.currentUserId
              admin == RequestBegun.currentUserRole = "admin"
          IN /\ (withRole /\ target = NoRow) => AnswerBegun = "NotFound"
             /\ (withRole /\ target # NoRow /\ (self \/ ~admin))
                   => AnswerBegun = "Forbidden"
             /\ AnswerBegun \in {"NotFound", "Forbidden"}
                   => users' = users /\ clerk' = clerk
      ]_vars

\* an admin was refused the change of their own role
C23_Witness ==
    /\ listing # NoRow
    /\ listing.op = "usersUpdate"
    /\ listing.res = "Forbidden"
    /\ listing.params.currentUserRole = "admin"
    /\ "role" \in DOMAIN listing.params.dto
    /\ UserById(users, listing.params.id) # NoRow
    /\ UserById(users, listing.params.id).clerkId = listing.params.currentUserId
    /\ users = InitUserRows
    /\ clerk = InitClerk

\* C24: when the push of a role to the identity provider fails after the
\* local update gave a row back, update raises nothing and returns that row,
\* which has the new role, and the users table keeps the new role.
C24_SyncFailureKeepsLocalRole ==
    [][ \A p \in Procs :
          (/\ call[p].at \in {"syncGetUser", "syncFindByClerkId", "syncUpdateUser"}
           /\ call'[p].at = "idle"
           /\ clerk' = clerk)
          => /\ listing'.res = "ok"
             /\ listing'.out = call[p].result
             /\ listing'.out.role = call[p].patch.dto["role"]
             /\ users' = users
             /\ \A r \in users' :
                   r.id = call[p].id => r.role = call[p].patch.dto["role"]
      ]_vars

\* update returned a user with a new role that the table has and the
\* provider, which was never reached, has not
C24_Witness ==
    /\ listing # NoRow
    /\ listing.op = "usersUpdate"
    /\ listing.res = "ok"
    /\ \A p \in Procs : call[p].at = "idle"
    /\ "role" \in DOMAIN listing.params.dto
    /\ listing.out # NoRow
    /\ listing.out.role = "content_editor"
    /\ UserById(users, listing.params.id) = listing.out
    /\ clerk.pushes = 0
    /\ clerk.meta[listing.out.clerkId]["role"] = "user"


====
